---- MODULE Spec2Model ----
(***************************************************************************)
(* ig_scraper.py: one run of the command-line profile scraper.            *)
(*                                                                         *)
(* The run is the body of main() executed statement by statement, with    *)
(* the SIGALRM watchdog installed at import time able to raise            *)
(* TimeoutError between any two statements.  The scraping library is the  *)
(* environment: profile lookup either returns a profile or raises, and    *)
(* the post iterator yields posts, ends, or raises.                       *)
(*                                                                         *)
(* Text is a sequence of tokens; a token is one character or one literal  *)
(* of the source.  JSON objects are records whose fields are the keys.    *)
(***************************************************************************)
EXTENDS Integers, Sequences, FiniteSets, TLC

VARIABLES
    argv,        \* sys.argv
    pc,          \* the statement of main() the run is at
    username,    \* line 22
    libCalls,    \* the usernames Profile.from_username was called with
    profile,     \* line 44
    exc,         \* the exception the outer try caught
    count,       \* line 62
    result,      \* line 46
    requests,    \* how many times the for statement asked the iterator
    iterRaised,  \* the post iterator raised
    stdout,      \* the JSON objects printed so far
    exitStatus,  \* -1 while the process runs
    alarm,       \* the SIGALRM watchdog: armed, fired or unsupported
    outAtAlarm,  \* stdout as it was when the watchdog fired
    uncaught     \* the watchdog's TimeoutError left the program uncaught

vars == <<argv, pc, username, libCalls, profile, exc, count, result,
          requests, iterRaised, stdout, exitStatus, alarm, outAtAlarm, uncaught>>

(* ---------------------------- bounds ---------------------------------- *)
MaxArgLen == 3
MaxMsgLen == 4
MaxPosts == 14

(* ----------------------- program constants ---------------------------- *)
PostLimit == 12

ArgChars == {"@", "a"}
MsgChars == {"4", "2", "9"}

RECURSIVE Strings(_, _)
Strings(chars, n) ==
    IF n = 0 THEN {<<>>}
    ELSE LET shorter == Strings(chars, n - 1)
         IN  shorter \cup {Append(s, c) : s \in shorter, c \in chars}

Args == Strings(ArgChars, MaxArgLen)
Msgs == Strings(MsgChars, MaxMsgLen)

Prog == <<"ig_scraper.py">>

NoProfile == [found |-> FALSE]
NoExc == [kind |-> "none"]

(* The exceptions the library raises out of Profile.from_username.        *)
LibExceptions ==
    [kind : {"ProfileNotExists", "Connection", "Other"}, msg : Msgs]

(* TimeoutError("Script timeout") raised by timeout_handler.              *)
ScriptTimeout == [kind |-> "Timeout", msg |-> <<"Script timeout">>]

(* A post iterator: yields len posts, then ends or raises.                *)
Feeds == [len : 0..MaxPosts, ending : {"stop", "raise"}, order : {"asc", "desc"}]

Profiles == [found : {TRUE}, is_private : BOOLEAN, feed : Feeds]

(* The i-th post (its shortcode) the iterator of feed f yields.           *)
PostAt(f, i) == IF f.order = "asc" THEN i ELSE f.len + 1 - i

(* ------------------------- pure helpers ------------------------------- *)

(* str.lstrip(chars) for a one-character chars argument.                  *)
LStripOne(s, ch) ==
    IF s # <<>> /\ s[1] = ch THEN Tail(s) ELSE s

RECURSIVE LStrip(_, _)
LStrip(s, ch) ==
    IF s # <<>> /\ s[1] = ch THEN LStrip(Tail(s), ch) ELSE s

(* "429" in err_str                                                       *)
Contains429(s) ==
    \E i \in 1..(Len(s) - 2) : s[i] = "4" /\ s[i + 1] = "2" /\ s[i + 2] = "9"

ArgMissing(av) == Len(av) < 2

(* The except clause of the outer try that catches e: the first clause    *)
(* whose class e is an instance of.                                       *)
ExceptClause(e) ==
    IF e.kind = "ProfileNotExists" THEN "ProfileNotExists"
    ELSE IF e.kind = "Connection" THEN "Connection"
    ELSE "Exception"

UsageObject == [error |-> <<"Usage: ig_scraper.py <username>">>]

RateLimitedObject ==
    [error |-> <<"rate_limited">>,
     message |-> <<"Instagram rate limit (429). Try again later.">>]

(* The object the handler that catches e prints.                          *)
ErrorObjectNo429Check(e, user) ==
    IF ExceptClause(e) = "ProfileNotExists"
    THEN [error |-> <<"Profile '">> \o user \o <<"' does not exist">>]
    ELSE IF ExceptClause(e) = "Connection"
    THEN [error |-> <<"Connection error: ">> \o e.msg]
    ELSE [error |-> e.msg]

ErrorObjectBarePrefix(e, user) ==
    IF ExceptClause(e) = "ProfileNotExists"
    THEN [error |-> <<"Profile '">> \o user \o <<"' does not exist">>]
    ELSE IF ExceptClause(e) = "Connection"
    THEN IF Contains429(e.msg)
         THEN RateLimitedObject
         ELSE [error |-> <<"Connection error">>]
    ELSE [error |-> e.msg]

ErrorObject(e, user) ==
    IF ExceptClause(e) = "ProfileNotExists"
    THEN [error |-> <<"Profile '">> \o user \o <<"' does not exist">>]
    ELSE IF ExceptClause(e) = "Connection"
    THEN IF Contains429(e.msg)
         THEN RateLimitedObject
         ELSE [error |-> <<"Connection error: ">> \o e.msg]
    ELSE [error |-> e.msg]

(* if not profile.is_private                                              *)
FetchesPostsAlways(p) == TRUE

FetchesPosts(p) == ~p.is_private

(* if count >= 12: break                                                  *)
LoopBreaksLate(c) == c > PostLimit

LoopBreaks(c) == c >= PostLimit

(* result["posts"].append(post_data)                                      *)
AppendPostInFront(posts, post) == <<post>> \o posts

AppendPost(posts, post) == Append(posts, post)

IsErrorObject(o) == "error" \in DOMAIN o
IsProfileRecord(o) == "posts" \in DOMAIN o
IsRateLimited(o) ==
    /\ IsErrorObject(o)
    /\ o.error = <<"rate_limited">>
    /\ "message" \in DOMAIN o

(* ---------------------------- Init ------------------------------------ *)
Init ==
    /\ argv \in {Prog} \cup {Prog \o <<a>> : a \in Args}
    /\ pc = "start"
    /\ username = <<>>
    /\ libCalls = <<>>
    /\ profile = NoProfile
    /\ exc = NoExc
    /\ count = 0
    /\ result = [posts |-> <<>>]
    /\ requests = 0
    /\ iterRaised = FALSE
    /\ stdout = <<>>
    /\ exitStatus = -1
    /\ alarm \in {"armed", "unsupported"}
    /\ outAtAlarm = <<>>
    /\ uncaught = FALSE

(* --------------------------- main() ----------------------------------- *)

(* line 18 *)
CheckArgs ==
    /\ pc = "start"
    /\ pc' = IF ArgMissing(argv) THEN "usage" ELSE "strip"
    /\ UNCHANGED <<argv, username, libCalls, profile, exc, count, result,
                   requests, iterRaised, stdout, exitStatus, alarm, outAtAlarm, uncaught>>

(* line 19 *)
PrintUsage ==
    /\ pc = "usage"
    /\ stdout' = Append(stdout, UsageObject)
    /\ pc' = "usage_exit"
    /\ UNCHANGED <<argv, username, libCalls, profile, exc, count, result,
                   requests, iterRaised, exitStatus, alarm, outAtAlarm, uncaught>>

(* line 20 *)
UsageExit ==
    /\ pc = "usage_exit"
    /\ exitStatus' = 1
    /\ pc' = "done"
    /\ UNCHANGED <<argv, username, libCalls, profile, exc, count, result,
                   requests, iterRaised, stdout, alarm, outAtAlarm, uncaught>>

(* lines 22-41 *)
StripUsername ==
    /\ pc = "strip"
    /\ username' = LStrip(argv[2], "@")
    /\ pc' = "lookup"
    /\ UNCHANGED <<argv, libCalls, profile, exc, count, result,
                   requests, iterRaised, stdout, exitStatus, alarm, outAtAlarm, uncaught>>

(* line 44, the call returns *)
LookupReturns ==
    /\ pc = "lookup"
    /\ \E p \in Profiles : profile' = p
    /\ libCalls' = Append(libCalls, username)
    /\ pc' = "build"
    /\ UNCHANGED <<argv, username, exc, count, result,
                   requests, iterRaised, stdout, exitStatus, alarm, outAtAlarm, uncaught>>

(* line 44, the call raises *)
LookupRaises ==
    /\ pc = "lookup"
    /\ \E e \in LibExceptions : exc' = e
    /\ libCalls' = Append(libCalls, username)
    /\ pc' = "except"
    /\ UNCHANGED <<argv, username, profile, count, result,
                   requests, iterRaised, stdout, exitStatus, alarm, outAtAlarm, uncaught>>

(* lines 46-62 *)
BuildResult ==
    /\ pc = "build"
    /\ result' = [username |-> username,
                  is_private |-> profile.is_private,
                  posts |-> <<>>]
    /\ IF FetchesPosts(profile)
       THEN /\ count' = 0
            /\ pc' = "iter"
       ELSE /\ count' = count
            /\ pc' = "print"
    /\ UNCHANGED <<argv, username, libCalls, profile, exc,
                   requests, iterRaised, stdout, exitStatus, alarm, outAtAlarm, uncaught>>

(* line 64: the for statement asks the iterator for its next post *)
NextPost ==
    /\ pc = "iter"
    /\ requests' = requests + 1
    /\ IF requests < profile.feed.len
       THEN /\ pc' = "body"
            /\ iterRaised' = iterRaised
       ELSE /\ pc' = "print"
            /\ iterRaised' = (profile.feed.ending = "raise")
    /\ UNCHANGED <<argv, username, libCalls, profile, exc, count, result,
                   stdout, exitStatus, alarm, outAtAlarm, uncaught>>

(* lines 65-79 *)
LoopBody ==
    /\ pc = "body"
    /\ IF LoopBreaks(count)
       THEN /\ pc' = "print"
            /\ UNCHANGED <<count, result>>
       ELSE /\ result' = [result EXCEPT
                            !.posts = AppendPost(@, PostAt(profile.feed, requests))]
            /\ count' = count + 1
            /\ pc' = "iter"
    /\ UNCHANGED <<argv, username, libCalls, profile, exc,
                   requests, iterRaised, stdout, exitStatus, alarm, outAtAlarm, uncaught>>

(* line 83 *)
PrintResult ==
    /\ pc = "print"
    /\ stdout' = Append(stdout, result)
    /\ pc' = "printed"
    /\ UNCHANGED <<argv, username, libCalls, profile, exc, count, result,
                   requests, iterRaised, exitStatus, alarm, outAtAlarm, uncaught>>

(* the try statement ends and main() returns *)
Return ==
    /\ pc = "printed"
    /\ pc' = "returned"
    /\ UNCHANGED <<argv, username, libCalls, profile, exc, count, result,
                   requests, iterRaised, stdout, exitStatus, alarm, outAtAlarm, uncaught>>

(* the interpreter exits after main() returned *)
ExitNormally ==
    /\ pc = "returned"
    /\ exitStatus' = 0
    /\ pc' = "done"
    /\ UNCHANGED <<argv, username, libCalls, profile, exc, count, result,
                   requests, iterRaised, stdout, alarm, outAtAlarm, uncaught>>

(* lines 85-86, 88-93, 95-96: the matching handler prints *)
PrintError ==
    /\ pc = "except"
    /\ stdout' = Append(stdout, ErrorObject(exc, username))
    /\ pc' = "except_exit"
    /\ UNCHANGED <<argv, username, libCalls, profile, exc, count, result,
                   requests, iterRaised, exitStatus, alarm, outAtAlarm, uncaught>>

(* lines 87, 94, 97 *)
HandlerExitsZero ==
    /\ pc = "except_exit"
    /\ exitStatus' = 0
    /\ pc' = "done"
    /\ UNCHANGED <<argv, username, libCalls, profile, exc, count, result,
                   requests, iterRaised, stdout, alarm, outAtAlarm, uncaught>>

HandlerExit ==
    /\ pc = "except_exit"
    /\ exitStatus' = 1
    /\ pc' = "done"
    /\ UNCHANGED <<argv, username, libCalls, profile, exc, count, result,
                   requests, iterRaised, stdout, alarm, outAtAlarm, uncaught>>

(* ---------------------------- watchdog -------------------------------- *)

InOuterTry == pc \in {"lookup", "build", "print", "printed"}
InInnerTry == pc \in {"iter", "body"}

(* lines 8-9 and 13: SIGALRM is delivered and timeout_handler raises      *)
(* TimeoutError at the statement the run is at.                           *)
(*   inside the inner try (63-81): swallowed by "except Exception: pass"; *)
(*   inside the outer try (43-83): caught by "except Exception as e";     *)
(*   anywhere else: not caught, the interpreter exits with status 1.      *)
AlarmFires ==
    /\ alarm = "armed"
    /\ pc # "done"
    /\ alarm' = "fired"
    /\ outAtAlarm' = stdout
    /\ IF InInnerTry
       THEN /\ pc' = "print"
            /\ UNCHANGED <<exc, exitStatus, uncaught>>
       ELSE IF InOuterTry
       THEN /\ pc' = "except"
            /\ exc' = ScriptTimeout
            /\ UNCHANGED <<exitStatus, uncaught>>
       ELSE /\ pc' = "done"
            /\ exitStatus' = 1
            /\ uncaught' = TRUE
            /\ exc' = exc
    /\ UNCHANGED <<argv, username, libCalls, profile, count, result,
                   requests, iterRaised, stdout>>

Next ==
    \/ CheckArgs
    \/ PrintUsage
    \/ UsageExit
    \/ StripUsername
    \/ LookupReturns
    \/ LookupRaises
    \/ BuildResult
    \/ NextPost
    \/ LoopBody
    \/ PrintResult
    \/ Return
    \/ ExitNormally
    \/ PrintError
    \/ HandlerExit
    \/ AlarmFires

Spec == Init /\ [][Next]_vars

(* ------------------------- vocabulary of the claims ------------------- *)

Min(a, b) == IF a < b THEN a ELSE b

Finished == pc = "done"
WatchdogFired == alarm = "fired"
LookupRaised == exc.kind \in {"ProfileNotExists", "Connection", "Other"}
LookupReturned == profile # NoProfile
ProfileRecords == {i \in 1..Len(stdout) : IsProfileRecord(stdout[i])}

(* The first n posts of feed f, in the order its iterator yields them.    *)
FirstPosts(f, n) == [i \in 1..n |-> PostAt(f, i)]

(* s contains the three characters 4, 2, 9 next to each other.            *)
Has429(s) ==
    \E k \in 0..(Len(s) - 3) : SubSeq(s, k + 1, k + 3) = <<"4", "2", "9">>

(* u is a with every leading "@" removed and nothing else.                *)
AllLeadingAtsRemoved(a, u) ==
    \E k \in 0..Len(a) :
        /\ \A i \in 1..k : a[i] = "@"
        /\ u = SubSeq(a, k + 1, Len(a))
        /\ (u = <<>> \/ u[1] # "@")

(* u is a with one leading "@" removed if there is one.                   *)
OneLeadingAtRemoved(a, u) ==
    IF a # <<>> /\ a[1] = "@" THEN u = Tail(a) ELSE u = a

(* ------------------------------- C1 ----------------------------------- *)
(* C1: every run writes exactly one JSON object to standard output: never *)
(* two at any moment, and exactly one once the run has ended, the         *)
(* watchdog firing at any point included.                                 *)
C1_ExactlyOneObject ==
    /\ Len(stdout) <= 1
    /\ Finished => Len(stdout) = 1

(* ------------------------------- C2 ----------------------------------- *)
(* C2: a run whose argument is missing or whose profile lookup raised     *)
(* ends with status 1, and with an error object as its only output unless *)
(* the watchdog's uncaught TimeoutError ended it first; a run ends with   *)
(* status 0 only after lookup returned a profile and the profile record   *)
(* is its output; no library call is made when the argument is missing.   *)
C2_FailuresExitOne ==
    /\ ArgMissing(argv) => libCalls = <<>>
    /\ (Finished /\ (ArgMissing(argv) \/ LookupRaised)) =>
          /\ exitStatus = 1
          /\ ~uncaught => (Len(stdout) = 1 /\ IsErrorObject(stdout[1]))
          /\ ProfileRecords = {}
    /\ (Finished /\ exitStatus = 0) =>
          /\ LookupReturned
          /\ Len(stdout) = 1
          /\ IsProfileRecord(stdout[1])

C2_Witness ==
    /\ Finished
    /\ LookupRaised
    /\ exc.kind = "Other"
    /\ ~WatchdogFired
    /\ exitStatus = 1
    /\ Len(stdout) = 1

(* ------------------------------- C3 ----------------------------------- *)
(* C3: once the watchdog has fired the run prints no profile record any   *)
(* more and never exits with status 0.                                    *)
C3_WatchdogAborts ==
    WatchdogFired =>
        /\ exitStatus # 0
        /\ \A i \in (Len(outAtAlarm) + 1)..Len(stdout) : ~IsProfileRecord(stdout[i])

(* ------------------------------- C4 ----------------------------------- *)
(* C4 as stated: when the profile is public and the post iterator raised, *)
(* the run (the watchdog not firing) prints the profile record, exits 0,  *)
(* and the record's posts list is empty.                                  *)
C4_EmptyPostsOnFailure ==
    (Finished /\ LookupReturned /\ ~profile.is_private /\ iterRaised /\ ~WatchdogFired) =>
        /\ Len(stdout) = 1
        /\ IsProfileRecord(stdout[1])
        /\ stdout[1].posts = <<>>
        /\ exitStatus = 0

(* C4 amended: when the profile is public and the post iterator raised,   *)
(* every profile record the run prints carries exactly the posts the      *)
(* iterator yielded before it raised, in the iterator's order (so the     *)
(* list is empty only when the first request raised); and when the        *)
(* watchdog does not fire that record is the run's only output and the    *)
(* exit status is 0.                                                      *)
C4_CollectedPostsKeptOnFailure ==
    (LookupReturned /\ ~profile.is_private /\ iterRaised) =>
        /\ \A i \in ProfileRecords :
              stdout[i].posts = FirstPosts(profile.feed, profile.feed.len)
        /\ (Finished /\ ~WatchdogFired) =>
              /\ Len(stdout) = 1
              /\ IsProfileRecord(stdout[1])
              /\ exitStatus = 0

C4_Witness ==
    /\ Finished
    /\ LookupReturned
    /\ ~profile.is_private
    /\ iterRaised
    /\ ~WatchdogFired
    /\ profile.feed.len >= 2
    /\ Len(stdout) = 1
    /\ Len(stdout[1].posts) = profile.feed.len
    /\ exitStatus = 0

(* ------------------------------- C5 ----------------------------------- *)
(* C5: for a private profile the post iterator is never asked for a post, *)
(* every printed profile record has an empty posts list whatever the      *)
(* iterator holds, and when the watchdog does not fire the run prints     *)
(* that record and exits with status 0.                                   *)
C5_PrivateProfileNoPosts ==
    (LookupReturned /\ profile.is_private) =>
        /\ requests = 0
        /\ ~iterRaised
        /\ \A i \in ProfileRecords : stdout[i].posts = <<>>
        /\ (Finished /\ ~WatchdogFired) =>
              /\ Len(stdout) = 1
              /\ IsProfileRecord(stdout[1])
              /\ exitStatus = 0

C5_Witness ==
    /\ Finished
    /\ LookupReturned
    /\ profile.is_private
    /\ profile.feed.len > 0
    /\ profile.feed.ending = "raise"
    /\ Len(stdout) = 1
    /\ IsProfileRecord(stdout[1])
    /\ exitStatus = 0

(* ------------------------------- C6 ----------------------------------- *)
(* C6: every printed profile record has at most 12 posts, and they are    *)
(* the first posts of the iterator in its order; when the iterator of a   *)
(* public profile yields n posts and then ends, the record printed (the   *)
(* watchdog not firing) holds exactly the first min(n, 12) of them.       *)
C6_AtMostTwelveInOrder ==
    /\ \A i \in ProfileRecords :
          /\ Len(stdout[i].posts) <= 12
          /\ stdout[i].posts = FirstPosts(profile.feed, Len(stdout[i].posts))
    /\ (Finished /\ LookupReturned /\ ~profile.is_private
            /\ profile.feed.ending = "stop" /\ ~WatchdogFired) =>
          /\ Len(stdout) = 1
          /\ IsProfileRecord(stdout[1])
          /\ stdout[1].posts = FirstPosts(profile.feed, Min(profile.feed.len, 12))

C6_Witness ==
    /\ Finished
    /\ LookupReturned
    /\ ~profile.is_private
    /\ profile.feed.ending = "stop"
    /\ profile.feed.len > 12
    /\ profile.feed.order = "desc"
    /\ ~WatchdogFired
    /\ Len(stdout) = 1
    /\ Len(stdout[1].posts) = 12

(* ------------------------------- C7 ----------------------------------- *)
(* C7: an object of the rate-limited kind (error "rate_limited" with a    *)
(* message field) is printed exactly when the exception caught is a       *)
(* connection error whose message contains "429": the handler of such an  *)
(* error prints it and the run ends with status 1, and no other           *)
(* exception, nor any other path, ever prints it.                         *)
C7_RateLimitedIffConnection429 ==
    /\ \A i \in 1..Len(stdout) :
          IsRateLimited(stdout[i]) => (exc.kind = "Connection" /\ Has429(exc.msg))
    /\ (exc.kind = "Connection" /\ Has429(exc.msg)) =>
          /\ pc = "except_exit" => stdout = <<RateLimitedObject>>
          /\ Finished => exitStatus = 1
          /\ (Finished /\ ~uncaught) => stdout = <<RateLimitedObject>>

C7_Witness ==
    /\ Finished
    /\ exc.kind = "Connection"
    /\ Len(exc.msg) = 4
    /\ Has429(exc.msg)
    /\ Len(stdout) = 1
    /\ IsRateLimited(stdout[1])
    /\ exitStatus = 1

(* ------------------------------- C8 ----------------------------------- *)
(* C8 as stated: when the handler has printed for a connection error      *)
(* without "429", or for an exception that is neither a connection error  *)
(* nor profile-not-found, the error field is exactly the exception's      *)
(* message.                                                               *)
C8_MessageVerbatim ==
    (pc = "except_exit" /\ exc.kind \in {"Connection", "Other", "Timeout"}
        /\ ~(exc.kind = "Connection" /\ Has429(exc.msg))) =>
        stdout[Len(stdout)].error = exc.msg

(* C8 amended: for a connection error without "429" the error field is    *)
(* the text "Connection error: " followed by the exception's message      *)
(* verbatim; for an exception that is neither a connection error nor      *)
(* profile-not-found it is exactly the exception's message; neither       *)
(* object has a message field, and the run ends with status 1.            *)
C8_MessagePassedThrough ==
    (exc.kind \in {"Connection", "Other", "Timeout"}
        /\ ~(exc.kind = "Connection" /\ Has429(exc.msg))) =>
        /\ (pc = "except_exit" \/ (Finished /\ ~uncaught)) =>
              /\ stdout # <<>>
              /\ DOMAIN stdout[Len(stdout)] = {"error"}
              /\ stdout[Len(stdout)].error =
                    IF exc.kind = "Connection"
                    THEN <<"Connection error: ">> \o exc.msg
                    ELSE exc.msg
        /\ Finished => exitStatus = 1

C8_Witness ==
    /\ Finished
    /\ exc.kind = "Connection"
    /\ exc.msg = <<"4", "9", "2">>
    /\ stdout = <<[error |-> <<"Connection error: ", "4", "9", "2">>]>>
    /\ exitStatus = 1

(* ------------------------------- C9 ----------------------------------- *)
(* C9 as stated: the username handed to profile lookup is the argument    *)
(* with one leading "@" removed, if it has one.                           *)
C9_OneLeadingAtStripped ==
    \A i \in 1..Len(libCalls) : OneLeadingAtRemoved(argv[2], libCalls[i])

(* C9 amended: the username handed to profile lookup, and echoed between  *)
(* "Profile '" and "' does not exist" in the profile-not-found message,   *)
(* is the argument with all of its leading "@" removed; no other          *)
(* character is removed.                                                  *)
C9_AllLeadingAtsStripped ==
    /\ \A i \in 1..Len(libCalls) : AllLeadingAtsRemoved(argv[2], libCalls[i])
    /\ (pc = "except_exit" /\ exc.kind = "ProfileNotExists") =>
          \E u \in Args :
              /\ AllLeadingAtsRemoved(argv[2], u)
              /\ stdout = <<[error |-> <<"Profile '">> \o u \o <<"' does not exist">>]>>

C9_Witness ==
    /\ pc = "except_exit"
    /\ exc.kind = "ProfileNotExists"
    /\ argv[2] = <<"@", "@", "a">>
    /\ libCalls = << <<"a">> >>
    /\ stdout = <<[error |-> <<"Profile '", "a", "' does not exist">>]>>

(* ------------------------------- C10 ---------------------------------- *)
(* C10: the run asks the post iterator for at most 12 posts, so an        *)
(* iterator that would raise on its 13th post is never made to raise.     *)
C10_NoThirteenthRequest ==
    /\ requests <= 12
    /\ iterRaised => profile.feed.len < 12

====
